---- MODULE Spec2Model ----
(***************************************************************************)
(* btc-spark-keys-gen: derivation of the Spark key bundle from a seed      *)
(* along the four Bitcoin HD schemes, the Taproot tweak with even-y        *)
(* normalisation, and the Spark bech32m address codec.                     *)
(*                                                                         *)
(* Strings are sequences of one-character strings, byte arrays are         *)
(* sequences of 0..255.  null is the empty sequence.                       *)
(*                                                                         *)
(* The imported primitives (secp256k1, BIP32 HDKey, the Taproot tweak) are *)
(* modelled at reduced scale: the curve is y^2 = x^3 + 7 like secp256k1,   *)
(* over a one-byte prime field with a prime group order, and the hashes    *)
(* inside BIP32 and the tweak are small mixing functions.  bech32m is      *)
(* modelled in full.                                                       *)
(***************************************************************************)
EXTENDS Integers, Sequences, FiniteSets, TLC

VARIABLES absent, instances, first, last, codec

vars == <<absent, instances, first, last, codec>>

\* ------------------------------------------------------------------------
\* Bounds
\* ------------------------------------------------------------------------
MaxAccount == 2
MaxStep == 1
MaxKey == 4

\* (Folds over long sequences go by halves and compute the accumulator
\* of the left half before the right one, "IF next >= 0", which keeps the
\* evaluation shallow.)
\* ------------------------------------------------------------------------
\* Generic helpers
\* ------------------------------------------------------------------------
Null == << >>

\* big-endian representation of k < 2^31 on len bytes
BytesBE(k, len) ==
  [i \in 1..len |-> IF len - i > 3 THEN 0 ELSE (k \div (256 ^ (len - i))) % 256]

RECURSIVE NumberBE(_)
\* the number of a big-endian byte array, by halves
NumberBE(bytes) ==
  IF Len(bytes) = 0 THEN 0
  ELSE IF Len(bytes) = 1 THEN bytes[1]
  ELSE LET h == Len(bytes) \div 2
           front == NumberBE(SubSeq(bytes, 1, h))
           back == NumberBE(SubSeq(bytes, h + 1, Len(bytes)))
       IN IF front = 0 THEN back ELSE front * (256 ^ (Len(bytes) - h)) + back

\* ------------------------------------------------------------------------
\* secp256k1 (import, reduced scale): y^2 = x^3 + 7 over F_CurveP, prime
\* group order CurveN, generator CurveG.
\* ------------------------------------------------------------------------
CurveP == 211
CurveN == 199
CurveG == [inf |-> FALSE, x |-> 3, y |-> 33]
Infinity == [inf |-> TRUE, x |-> 0, y |-> 0]

RECURSIVE PowMod(_, _, _)
PowMod(a, e, m) ==
  IF e = 0 THEN 1
  ELSE IF e % 2 = 0 THEN PowMod((a * a) % m, e \div 2, m)
  ELSE (a * PowMod(a, e - 1, m)) % m

InvModP(a) == PowMod(a % CurveP, CurveP - 2, CurveP)

PointAdd(A, B) ==
  IF A.inf THEN B
  ELSE IF B.inf THEN A
  ELSE IF A.x = B.x /\ (A.y + B.y) % CurveP = 0 THEN Infinity
  ELSE LET lam == IF A.x = B.x
                  THEN (3 * A.x * A.x * InvModP(2 * A.y)) % CurveP
                  ELSE ((B.y - A.y + CurveP) * InvModP(B.x - A.x + CurveP)) % CurveP
           x3 == (lam * lam + 2 * CurveP - A.x - B.x) % CurveP
           y3 == (lam * (A.x - x3 + CurveP) + CurveP - A.y) % CurveP
       IN [inf |-> FALSE, x |-> x3, y |-> y3]

RECURSIVE ScalarMul(_, _)
ScalarMul(k, A) ==
  IF k = 0 THEN Infinity
  ELSE IF k % 2 = 0 THEN ScalarMul(k \div 2, PointAdd(A, A))
  ELSE PointAdd(A, ScalarMul(k - 1, A))

\* the points k*G, k in 1..CurveN-1
BasePoints == [k \in 1..(CurveN - 1) |-> ScalarMul(k, CurveG)]

\* compressed encoding: sign byte 0x02 (even y) or 0x03 (odd y), then x on 32 bytes
CompressedPoint(A) == <<2 + (A.y % 2)>> \o BytesBE(A.x, 32)

\* secp256k1.getPublicKey(privateKey)
getPublicKey(privateKey) == CompressedPoint(BasePoints[NumberBE(privateKey)])

\* privateNegate(privateKey): the scalar negation modulo the group order
privateNegate(privateKey) ==
  BytesBE((CurveN - NumberBE(privateKey)) % CurveN, 32)

\* ------------------------------------------------------------------------
\* Strings
\* ------------------------------------------------------------------------
Digits == <<"0", "1", "2", "3", "4", "5", "6", "7", "8", "9">>

IsDigit(c) == \E d \in 1..10 : Digits[d] = c

DigitValue(c) == (CHOOSE d \in 1..10 : Digits[d] = c) - 1

RECURSIVE NumberToString(_)
\* accountNumber.toString() for a non-negative integer
NumberToString(n) ==
  IF n < 10 THEN <<Digits[n + 1]>>
  ELSE Append(NumberToString(n \div 10), Digits[(n % 10) + 1])

RECURSIVE ReplaceAll(_, _, _)
\* str.replace(/c/g, by)
ReplaceAll(str, c, by) ==
  IF Len(str) = 0 THEN << >>
  ELSE (IF Head(str) = c THEN by ELSE <<Head(str)>>) \o ReplaceAll(Tail(str), c, by)

RECURSIVE Split(_, _)
\* str.split(c): the pieces of str between the occurrences of c
Split(str, c) ==
  IF \A i \in 1..Len(str) : str[i] # c THEN <<str>>
  ELSE LET i == CHOOSE j \in 1..Len(str) :
                  str[j] = c /\ \A k \in 1..(j - 1) : str[k] # c
       IN <<SubSeq(str, 1, i - 1)>> \o Split(SubSeq(str, i + 1, Len(str)), c)

RECURSIVE ParseDecimal(_)
ParseDecimal(ds) ==
  IF Len(ds) = 0 THEN 0
  ELSE ParseDecimal(SubSeq(ds, 1, Len(ds) - 1)) * 10 + DigitValue(ds[Len(ds)])

\* ------------------------------------------------------------------------
\* HDKey (import @scure/bip32, reduced scale)
\* ------------------------------------------------------------------------
HashMod == 7919

\* stands for HMAC-SHA512 of (key, data, index)
Mix(a, b, c) == (a * 131 + b * 17 + c * 7 + 11) % HashMod

RECURSIVE MixBytes(_, _)
\* the bytes are absorbed left to right; the sequence is processed by halves
MixBytes(h, bytes) ==
  IF Len(bytes) = 0 THEN h
  ELSE IF Len(bytes) = 1 THEN Mix(h, bytes[1], 1)
  ELSE LET half == Len(bytes) \div 2
           next == MixBytes(h, SubSeq(bytes, 1, half))
       IN IF next >= 0 THEN MixBytes(next, SubSeq(bytes, half + 1, Len(bytes))) ELSE 0

NoNode == [key |-> 0, chainCode |-> 0, depth |-> 0, index |-> 0,
           hardened |-> FALSE, privateKey |-> Null, publicKey |-> Null]

\* The place of a node in the bundle, from its position in the tree
NodeRole(depth, index, hardened) ==
  IF depth = 0 THEN "master"
  ELSE IF depth = 5 THEN "identity"
  ELSE IF depth = 6 /\ hardened /\ index = 1 THEN "signing"
  ELSE IF depth = 6 /\ hardened /\ index = 2 THEN "deposit"
  ELSE IF depth = 6 /\ hardened /\ index = 3 THEN "static"
  ELSE "inner"


\* new HDKey({chainCode, privateKey, depth, index}); privateKey and publicKey
\* are typed Uint8Array | null: abs is the set of <<role, component>> the
\* primitive leaves null.
MakeNode(key, chainCode, depth, index, hardened, abs) ==
  LET role == NodeRole(depth, index, hardened)
  IN [key |-> key, chainCode |-> chainCode, depth |-> depth, index |-> index,
      hardened |-> hardened,
      privateKey |-> IF <<role, "privateKey">> \in abs THEN Null ELSE BytesBE(key, 32),
      publicKey |-> IF <<role, "publicKey">> \in abs THEN Null
                    ELSE CompressedPoint(BasePoints[key])]

Raise(msg) == [ok |-> FALSE, node |-> NoNode, message |-> msg]
Return(node) == [ok |-> TRUE, node |-> node, message |-> ""]

ErrSeedLength == "HDKey: seed length must be between 128 and 512 bits"
ErrPathStart == "Path must start with m or M"
ErrChildIndex == "invalid child index"

\* HDKey.fromMasterSeed(seed)
fromMasterSeed(seed, abs) ==
  IF 8 * Len(seed) < 128 \/ 8 * Len(seed) > 512 THEN Raise(ErrSeedLength)
  ELSE LET I == MixBytes(Len(seed), seed)
       IN Return(MakeNode(1 + (I % (CurveN - 1)), Mix(I, 1, 2), 0, 0, FALSE, abs))

RECURSIVE deriveChild(_, _, _, _)
\* hdkey.deriveChild(index): child key = parent key + tweak mod n; an invalid
\* child key moves on to index + 1
deriveChild(node, index, hardened, abs) ==
  LET data == IF hardened THEN node.key ELSE BasePoints[node.key].x * 2 + (BasePoints[node.key].y % 2)
      I == Mix(node.chainCode, data, 2 * index + (IF hardened THEN 1 ELSE 0))
      childTweak == 1 + (I % (CurveN - 1))
      added == (node.key + childTweak) % CurveN
  IN IF added = 0 THEN deriveChild(node, index + 1, hardened, abs)
     ELSE MakeNode(added, Mix(I, node.chainCode, 5), node.depth + 1, index, hardened, abs)

\* one path component matches /^(\d+)('?)$/
IsChildComponent(c) ==
  LET ds == IF Len(c) > 0 /\ c[Len(c)] = "'" THEN SubSeq(c, 1, Len(c) - 1) ELSE c
  IN Len(ds) > 0 /\ \A i \in 1..Len(ds) : IsDigit(ds[i])

ComponentHardened(c) == c[Len(c)] = "'"

ComponentIndex(c) ==
  ParseDecimal(IF ComponentHardened(c) THEN SubSeq(c, 1, Len(c) - 1) ELSE c)

RECURSIVE deriveParts(_, _, _)
deriveParts(node, parts, abs) ==
  IF Len(parts) = 0 THEN Return(node)
  ELSE IF ~IsChildComponent(Head(parts)) THEN Raise(ErrChildIndex)
  ELSE deriveParts(deriveChild(node, ComponentIndex(Head(parts)),
                               ComponentHardened(Head(parts)), abs),
                   Tail(parts), abs)

\* hdkey.derive(path)
derive(hdkey, path, abs) ==
  IF Len(path) = 0 \/ Head(path) \notin {"m", "M"} THEN Raise(ErrPathStart)
  ELSE IF Len(path) = 1 THEN Return(hdkey)
  ELSE IF path[2] # "/" THEN Raise(ErrPathStart)
  ELSE deriveParts(hdkey, Split(SubSeq(path, 3, Len(path)), "/"), abs)

\* ------------------------------------------------------------------------
\* taprootTweakPrivKey (import @scure/btc-signer, reduced scale)
\* ------------------------------------------------------------------------
ErrTweakInput == "taprootTweakPrivKey: Uint8Array expected"
ErrTweakInvalid == "taprootTweakPrivKey: tweaked private key is invalid"

\* stands for the tagged hash TapTweak of the x-only internal public key
TapTweakHash(x) == Mix(x, 86, 341) % CurveN

\* BIP341: the internal key is first replaced by the one of even y, then the
\* tweak is added modulo the group order
taprootTweakPrivKey(privKey) ==
  IF privKey = Null THEN [ok |-> FALSE, key |-> Null, message |-> ErrTweakInput]
  ELSE LET d == NumberBE(privKey)
           P == BasePoints[d]
           seckey == IF P.y % 2 = 0 THEN d ELSE CurveN - d
           tweaked == (seckey + TapTweakHash(P.x)) % CurveN
       IN IF tweaked = 0
          THEN [ok |-> FALSE, key |-> Null, message |-> ErrTweakInvalid]
          ELSE [ok |-> TRUE, key |-> BytesBE(tweaked, 32), message |-> ""]

\* ------------------------------------------------------------------------
\* Key generators
\* ------------------------------------------------------------------------
Schemes == {"NativeSegwit", "WrappedSegwit", "LegacyBitcoin", "Taproot"}

ErrMaster == "Failed to derive keys from seed"
ErrDerived == "Failed to derive all required keys from seed"

NoKeyPair == [privateKey |-> Null, publicKey |-> Null]
NoDerivedHDKey == [hdKey |-> NoNode, privateKey |-> Null, publicKey |-> Null]
NoKeys == [identityKey |-> NoKeyPair, signingHDKey |-> NoDerivedHDKey,
           depositKey |-> NoKeyPair, staticDepositHDKey |-> NoDerivedHDKey]

Throw(msg) == [status |-> "error", message |-> msg, keys |-> NoKeys]

KeyPair(privateKey, publicKey) == [privateKey |-> privateKey, publicKey |-> publicKey]

DerivedHDKey(node) ==
  [hdKey |-> node, privateKey |-> node.privateKey, publicKey |-> node.publicKey]

\* the object literal returned by deriveKeysFromSeed
Bundle(identityKey, signingKey, depositKey, staticDepositKey) ==
  [status |-> "ok", message |-> "",
   keys |-> [identityKey |-> identityKey,
             signingHDKey |-> DerivedHDKey(signingKey),
             depositKey |-> KeyPair(depositKey.privateKey, depositKey.publicKey),
             staticDepositHDKey |-> DerivedHDKey(staticDepositKey)]]

\* the derivation path templates of the four schemes
T84A == <<"m", "/", "8", "4", "'", "/", "0", "'", "/", "0", "'", "/", "0", "/", "?">>
T84B == <<"m", "/", "8", "4", "'", "/", "0", "'", "/", "?", "'", "/", "0", "/", "0">>
T49A == <<"m", "/", "4", "9", "'", "/", "0", "'", "/", "0", "'", "/", "0", "/", "?">>
T49B == <<"m", "/", "4", "9", "'", "/", "0", "'", "/", "?", "'", "/", "0", "/", "0">>
T44A == <<"m", "/", "4", "4", "'", "/", "0", "'", "/", "0", "'", "/", "0", "/", "?">>
T44B == <<"m", "/", "4", "4", "'", "/", "0", "'", "/", "?", "'", "/", "0", "/", "0">>
T86APRE == <<"m", "/", "8", "6", "'", "/", "0", "'", "/", "0", "'", "/", "0", "/">>
T86BPRE == <<"m", "/", "8", "6", "'", "/", "0", "'", "/">>
T86BPOST == <<"'", "/", "0", "/", "0">>

\* TemplateUseAddressIndex with the account templates
TemplateUseAddressIndex_AccountForm(scheme) ==
  CASE scheme = "NativeSegwit" -> T84B
    [] scheme = "WrappedSegwit" -> T49B
    [] scheme = "LegacyBitcoin" -> T44B

TemplateUseAddressIndex(scheme) ==
  CASE scheme = "NativeSegwit" -> T84A
    [] scheme = "WrappedSegwit" -> T49A
    [] scheme = "LegacyBitcoin" -> T44A

\* TemplateUseAccount with the address-index templates
TemplateUseAccount_AddressForm(scheme) ==
  CASE scheme = "NativeSegwit" -> T84A
    [] scheme = "WrappedSegwit" -> T49A
    [] scheme = "LegacyBitcoin" -> T44A

TemplateUseAccount(scheme) ==
  CASE scheme = "NativeSegwit" -> T84B
    [] scheme = "WrappedSegwit" -> T49B
    [] scheme = "LegacyBitcoin" -> T44B

\* (useAddressIndex ? templateUseAddressIndex : templateUseAccount)
\*   .replace(/\?/g, accountNumber.toString())
TemplatePath(scheme, useAddressIndex, accountNumber) ==
  ReplaceAll(IF useAddressIndex THEN TemplateUseAddressIndex(scheme)
                                ELSE TemplateUseAccount(scheme),
             "?", NumberToString(accountNumber))

\* TaprootPath with the account number left out
TaprootPath_FixedAccount(useAddressIndex, accountNumber) ==
  IF useAddressIndex THEN T86APRE \o <<"0">>
  ELSE T86BPRE \o <<"0">> \o T86BPOST

\* useAddressIndex ? `m/86'/0'/0'/0/${accountNumber}` : `m/86'/0'/${accountNumber}'/0/0`
TaprootPath(useAddressIndex, accountNumber) ==
  IF useAddressIndex THEN T86APRE \o NumberToString(accountNumber)
  ELSE T86BPRE \o NumberToString(accountNumber) \o T86BPOST

DerivationPath(scheme, useAddressIndex, accountNumber) ==
  IF scheme = "Taproot" THEN TaprootPath(useAddressIndex, accountNumber)
  ELSE TemplatePath(scheme, useAddressIndex, accountNumber)

\* DepositPath with the index of the static deposit key
DepositPath_Index3(derivationPath) == derivationPath \o <<"/", "3", "'">>

\* `${derivationPath}/1'`, `${derivationPath}/2'`, `${derivationPath}/3'`
SigningPath(derivationPath) == derivationPath \o <<"/", "1", "'">>
DepositPath(derivationPath) == derivationPath \o <<"/", "2", "'">>
StaticDepositPath(derivationPath) == derivationPath \o <<"/", "3", "'">>

\* the last statements of DerivationPathKeysGenerator.deriveKeysFromSeed: the
\* check of the four derived nodes and the object literal returned
PathKeysGenerator_return(identityKey, signingKey, depositKey, staticDepositKey) ==
  IF ~identityKey.ok THEN Throw(identityKey.message)
  ELSE IF ~signingKey.ok THEN Throw(signingKey.message)
  ELSE IF ~depositKey.ok THEN Throw(depositKey.message)
  ELSE IF ~staticDepositKey.ok THEN Throw(staticDepositKey.message)
  ELSE IF \/ identityKey.node.privateKey = Null
          \/ identityKey.node.publicKey = Null
          \/ signingKey.node.privateKey = Null
          \/ signingKey.node.publicKey = Null
          \/ depositKey.node.privateKey = Null
          \/ depositKey.node.publicKey = Null
          \/ staticDepositKey.node.privateKey = Null
          \/ staticDepositKey.node.publicKey = Null
       THEN Throw(ErrDerived)
  ELSE Bundle(KeyPair(identityKey.node.privateKey, identityKey.node.publicKey),
              signingKey.node, depositKey.node, staticDepositKey.node)

\* the statements after HDKey.fromMasterSeed: the check of the master node and
\* the four derivations; master is the outcome of fromMasterSeed
PathKeysGenerator_derive(master, derivationPath, abs) ==
  IF ~master.ok THEN Throw(master.message)
  ELSE IF master.node.privateKey = Null \/ master.node.publicKey = Null THEN Throw(ErrMaster)
  ELSE PathKeysGenerator_return(derive(master.node, derivationPath, abs),
                                derive(master.node, SigningPath(derivationPath), abs),
                                derive(master.node, DepositPath(derivationPath), abs),
                                derive(master.node, StaticDepositPath(derivationPath), abs))

\* DerivationPathKeysGenerator.deriveKeysFromSeed
PathKeysGenerator_deriveKeysFromSeed(scheme, useAddressIndex, seed, accountNumber, abs) ==
  PathKeysGenerator_derive(fromMasterSeed(seed, abs),
                           TemplatePath(scheme, useAddressIndex, accountNumber), abs)

\* EvenKey without the negation
EvenKey_NoNegate(tweakedPrivateKey) ==
  [privateKey |-> tweakedPrivateKey, publicKey |-> getPublicKey(tweakedPrivateKey)]

\* EvenKey that negates the private key and keeps the public key computed
\* before
EvenKey_StalePublicKey(tweakedPrivateKey) ==
  IF getPublicKey(tweakedPrivateKey)[1] = 3
  THEN [privateKey |-> privateNegate(tweakedPrivateKey),
        publicKey |-> getPublicKey(tweakedPrivateKey)]
  ELSE [privateKey |-> tweakedPrivateKey, publicKey |-> getPublicKey(tweakedPrivateKey)]

\* "always use the even key": a tweaked key of odd y is negated once and its
\* public key computed again
EvenKey(tweakedPrivateKey) ==
  LET tweakedPublicKey == getPublicKey(tweakedPrivateKey)
  IN IF tweakedPublicKey[1] = 3
     THEN [privateKey |-> privateNegate(tweakedPrivateKey),
           publicKey |-> getPublicKey(privateNegate(tweakedPrivateKey))]
     ELSE [privateKey |-> tweakedPrivateKey, publicKey |-> tweakedPublicKey]

\* the last statements of TaprootOutputKeysGenerator.deriveKeysFromSeed: the
\* even key, the check of the three child nodes and the object literal
\* returned; tweaked is the outcome of taprootTweakPrivKey
Taproot_return(tweaked, signingKey, depositKey, staticDepositKey) ==
  IF ~tweaked.ok THEN Throw(tweaked.message)
  ELSE IF ~signingKey.ok THEN Throw(signingKey.message)
  ELSE IF ~depositKey.ok THEN Throw(depositKey.message)
  ELSE IF ~staticDepositKey.ok THEN Throw(staticDepositKey.message)
  ELSE IF \/ signingKey.node.privateKey = Null
          \/ signingKey.node.publicKey = Null
          \/ depositKey.node.privateKey = Null
          \/ depositKey.node.publicKey = Null
          \/ staticDepositKey.node.privateKey = Null
          \/ staticDepositKey.node.publicKey = Null
       THEN Throw(ErrDerived)
  ELSE Bundle(EvenKey(tweaked.key), signingKey.node, depositKey.node, staticDepositKey.node)

\* taprootTweakPrivKey(taprootInternalKey.privateKey!) and what follows
Taproot_tweak(taprootInternalKey, signingKey, depositKey, staticDepositKey) ==
  IF ~taprootInternalKey.ok THEN Throw(taprootInternalKey.message)
  ELSE Taproot_return(taprootTweakPrivKey(taprootInternalKey.node.privateKey),
                      signingKey, depositKey, staticDepositKey)

\* the statements after HDKey.fromMasterSeed: the check of the master node and
\* the four derivations; master is the outcome of fromMasterSeed
Taproot_derive(master, derivationPath, abs) ==
  IF ~master.ok THEN Throw(master.message)
  ELSE IF master.node.privateKey = Null \/ master.node.publicKey = Null THEN Throw(ErrMaster)
  ELSE Taproot_tweak(derive(master.node, derivationPath, abs),
                     derive(master.node, SigningPath(derivationPath), abs),
                     derive(master.node, DepositPath(derivationPath), abs),
                     derive(master.node, StaticDepositPath(derivationPath), abs))

\* TaprootOutputKeysGenerator.deriveKeysFromSeed
Taproot_deriveKeysFromSeed(useAddressIndex, seed, accountNumber, abs) ==
  Taproot_derive(fromMasterSeed(seed, abs), TaprootPath(useAddressIndex, accountNumber), abs)

deriveKeysFromSeed(scheme, useAddressIndex, seed, accountNumber, abs) ==
  IF scheme = "Taproot"
  THEN Taproot_deriveKeysFromSeed(useAddressIndex, seed, accountNumber, abs)
  ELSE PathKeysGenerator_deriveKeysFromSeed(scheme, useAddressIndex, seed, accountNumber, abs)

\* ------------------------------------------------------------------------
\* bech32m (import bech32)
\* ------------------------------------------------------------------------
\* the characters of code 33..126; Ascii[i] has code 32 + i (the double
\* quote, the backslash and the backtick are spelled out)
Ascii ==
  <<"!", "dquote", "#", "$", "%", "&", "'", "(", ")", "*", "+", ",", "-", ".",
  "/", "0", "1", "2", "3", "4", "5", "6", "7", "8", "9", ":", ";", "<", "=",
  ">", "?", "@", "A", "B", "C", "D", "E", "F", "G", "H", "I", "J", "K", "L",
  "M", "N", "O", "P", "Q", "R", "S", "T", "U", "V", "W", "X", "Y", "Z", "[",
  "backslash", "]", "^", "_", "backtick", "a", "b", "c", "d", "e", "f", "g", "h", "i",
  "j", "k", "l", "m", "n", "o", "p", "q", "r", "s", "t", "u", "v", "w", "x",
  "y", "z", "{", "|", "}", "~">>

IsAscii(c) == \E i \in 1..Len(Ascii) : Ascii[i] = c

\* c.charCodeAt(0)
CharCode(c) == 32 + (CHOOSE i \in 1..Len(Ascii) : Ascii[i] = c)

LowerChar(c) ==
  IF IsAscii(c) /\ CharCode(c) >= 65 /\ CharCode(c) <= 90
  THEN Ascii[CharCode(c)] ELSE c

UpperChar(c) ==
  IF IsAscii(c) /\ CharCode(c) >= 97 /\ CharCode(c) <= 122
  THEN Ascii[CharCode(c) - 64] ELSE c

\* str.toLowerCase(), str.toUpperCase()
toLowerCase(str) == [i \in 1..Len(str) |-> LowerChar(str[i])]
toUpperCase(str) == [i \in 1..Len(str) |-> UpperChar(str[i])]

ALPHABET ==
  <<"q", "p", "z", "r", "y", "9", "x", "8", "g", "f", "2", "t", "v", "d",
  "w", "0", "s", "3", "j", "n", "5", "4", "k", "h", "c", "e", "6", "m", "u",
  "a", "7", "l">>

InAlphabet(c) == \E i \in 1..32 : ALPHABET[i] = c

\* ALPHABET_MAP[c]
AlphabetValue(c) == (CHOOSE i \in 1..32 : ALPHABET[i] = c) - 1

RECURSIVE Xor(_, _)
\* a ^ b on non-negative integers
Xor(a, b) ==
  IF a = 0 THEN b
  ELSE IF b = 0 THEN a
  ELSE 2 * Xor(a \div 2, b \div 2) + ((a + b) % 2)

GENERATOR == <<996825010, 642813549, 513874426, 1027748829, 705979059>>

Bit(v, i) == (v \div (2 ^ i)) % 2

polymodStep(pre) ==
  LET b == pre \div 33554432
      g(i) == IF Bit(b, i) = 1 THEN GENERATOR[i + 1] ELSE 0
  IN Xor(Xor(Xor(Xor(Xor((pre % 33554432) * 32, g(0)), g(1)), g(2)), g(3)), g(4))

\* the bech32m checksum constant
ENCODING_CONST == 734539939

\* the length limit of encode and decode
LIMIT == 90

ErrExceeds == "Exceeds length limit"
ErrInvalidPrefix == "Invalid prefix"
ErrNon5Bit == "Non 5-bit word"
ErrTooShort == "too short"
ErrMixedCase == "Mixed-case string"
ErrNoSeparator == "No separator character"
ErrMissingPrefix == "Missing prefix"
ErrDataTooShort == "Data too short"
ErrUnknownChar == "Unknown character"
ErrChecksum == "Invalid checksum"
ErrExcessPadding == "Excess padding"
ErrNonZeroPadding == "Non-zero padding"

RECURSIVE PrefixHigh(_, _)
PrefixHigh(chk, prefix) ==
  IF Len(prefix) = 0 THEN chk
  ELSE LET next == Xor(polymodStep(chk), CharCode(Head(prefix)) \div 32)
       IN IF next >= 0 THEN PrefixHigh(next, Tail(prefix)) ELSE 0

RECURSIVE PrefixLow(_, _)
PrefixLow(chk, prefix) ==
  IF Len(prefix) = 0 THEN chk
  ELSE LET next == Xor(polymodStep(chk), CharCode(Head(prefix)) % 32)
       IN IF next >= 0 THEN PrefixLow(next, Tail(prefix)) ELSE 0

PrefixValid(prefix) == \A i \in 1..Len(prefix) : IsAscii(prefix[i])

\* prefixChk(prefix), for a prefix of characters 33..126
prefixChk(prefix) == PrefixLow(polymodStep(PrefixHigh(1, prefix)), prefix)

RECURSIVE WordsChk(_, _)
\* chk = polymodStep(chk) ^ v for every v of words, left to right; the
\* sequence is processed by halves
WordsChk(chk, words) ==
  IF Len(words) = 0 THEN chk
  ELSE IF Len(words) = 1 THEN Xor(polymodStep(chk), words[1])
  ELSE LET half == Len(words) \div 2
           next == WordsChk(chk, SubSeq(words, 1, half))
       IN IF next >= 0 THEN WordsChk(next, SubSeq(words, half + 1, Len(words))) ELSE 0

RECURSIVE StepTimes(_, _)
StepTimes(chk, n) ==
  IF n = 0 THEN chk
  ELSE LET next == polymodStep(chk)
       IN IF next >= 0 THEN StepTimes(next, n - 1) ELSE 0

RECURSIVE convertLoop(_, _, _, _, _)
\* the loop of convert over data, from the carried value and bit count:
\* the emitted groups and the value and bit count left; value holds only the
\* bits not yet emitted; the sequence is processed by halves
convertLoop(data, inBits, outBits, value, bits) ==
  IF Len(data) = 0 THEN [out |-> << >>, value |-> value, bits |-> bits]
  ELSE IF Len(data) = 1
  THEN LET v == value * (2 ^ inBits) + data[1]
           b == bits + inBits
           n == b \div outBits
           r == b % outBits
       IN [out |-> [k \in 1..n |-> (v \div (2 ^ (b - k * outBits))) % (2 ^ outBits)],
           value |-> v % (2 ^ r), bits |-> r]
  ELSE LET half == Len(data) \div 2
           left == convertLoop(SubSeq(data, 1, half), inBits, outBits, value, bits)
           right == IF left.bits >= 0
                    THEN convertLoop(SubSeq(data, half + 1, Len(data)), inBits, outBits,
                                     left.value, left.bits)
                    ELSE left
       IN [out |-> left.out \o right.out, value |-> right.value, bits |-> right.bits]

\* convert(data, inBits, outBits, pad)
convert(data, inBits, outBits, pad) ==
  LET loop == convertLoop(data, inBits, outBits, 0, 0)
      padding == (loop.value * (2 ^ (outBits - loop.bits))) % (2 ^ outBits)
  IN IF pad
     THEN [ok |-> TRUE, message |-> "",
           out |-> IF loop.bits > 0 THEN Append(loop.out, padding) ELSE loop.out]
     ELSE IF loop.bits >= inBits
          THEN [ok |-> FALSE, message |-> ErrExcessPadding, out |-> << >>]
     ELSE IF padding # 0
          THEN [ok |-> FALSE, message |-> ErrNonZeroPadding, out |-> << >>]
     ELSE [ok |-> TRUE, message |-> "", out |-> loop.out]

\* bech32m.toWords(bytes)
toWords(bytes8) == convert(bytes8, 8, 5, TRUE).out

\* bech32m.fromWords(words): the bytes, or the error it throws
fromWords(words5) == convert(words5, 5, 8, FALSE)

\* encode(prefix, words) of the library built for one checksum constant
encodeWith(const, prefix, words) ==
  IF Len(prefix) + 7 + Len(words) > LIMIT
  THEN [ok |-> FALSE, message |-> ErrExceeds, str |-> << >>]
  ELSE IF ~PrefixValid(toLowerCase(prefix))
  THEN [ok |-> FALSE, message |-> ErrInvalidPrefix, str |-> << >>]
  ELSE IF \E i \in 1..Len(words) : words[i] \div 32 # 0
  THEN [ok |-> FALSE, message |-> ErrNon5Bit, str |-> << >>]
  ELSE LET lowered == toLowerCase(prefix)
           chk == Xor(StepTimes(WordsChk(prefixChk(lowered), words), 6), const)
       IN [ok |-> TRUE, message |-> "",
           str |-> lowered \o <<"1">>
                   \o [i \in 1..Len(words) |-> ALPHABET[words[i] + 1]]
                   \o [i \in 1..6 |-> ALPHABET[((chk \div (2 ^ ((6 - i) * 5))) % 32) + 1]]]

\* bech32m_encode with the checksum constant of bech32
bech32m_encode_Bech32(prefix, words) == encodeWith(1, prefix, words)

\* bech32m.encode(prefix, words)
bech32m_encode(prefix, words) == encodeWith(ENCODING_CONST, prefix, words)

DecodeError(msg) == [ok |-> FALSE, message |-> msg, prefix |-> << >>, words |-> << >>]

\* str.lastIndexOf("1"), 1-based, 0 when absent
LastSeparator(str) ==
  IF \A i \in 1..Len(str) : str[i] # "1" THEN 0
  ELSE CHOOSE i \in 1..Len(str) :
         str[i] = "1" /\ \A k \in (i + 1)..Len(str) : str[k] # "1"

\* bech32m.decode(str)
bech32m_decode(str) ==
  LET lowered == toLowerCase(str)
      uppered == toUpperCase(str)
      split == LastSeparator(lowered)
      prefix == SubSeq(lowered, 1, split - 1)
      wordChars == SubSeq(lowered, split + 1, Len(lowered))
      values == [i \in 1..Len(wordChars) |-> AlphabetValue(wordChars[i])]
  IN IF Len(str) < 8 THEN DecodeError(ErrTooShort)
     ELSE IF Len(str) > LIMIT THEN DecodeError(ErrExceeds)
     ELSE IF str # lowered /\ str # uppered THEN DecodeError(ErrMixedCase)
     ELSE IF split = 0 THEN DecodeError(ErrNoSeparator)
     ELSE IF split = 1 THEN DecodeError(ErrMissingPrefix)
     ELSE IF Len(wordChars) < 6 THEN DecodeError(ErrDataTooShort)
     ELSE IF ~PrefixValid(prefix) THEN DecodeError(ErrInvalidPrefix)
     ELSE IF \E i \in 1..Len(wordChars) : ~InAlphabet(wordChars[i])
          THEN DecodeError(ErrUnknownChar)
     ELSE IF WordsChk(prefixChk(prefix), values) # ENCODING_CONST
          THEN DecodeError(ErrChecksum)
     ELSE [ok |-> TRUE, message |-> "", prefix |-> prefix,
           words |-> SubSeq(values, 1, Len(values) - 6)]

\* ------------------------------------------------------------------------
\* Spark address codec
\* ------------------------------------------------------------------------
ErrPublicKeyFormat == "Invalid public key format"
ErrNetwork == "Only mainnet or regtest supported"
ErrUnknownPrefix == "Unknown prefix detected in decoding taproot address"
ErrVersion == "Not valid version for taproot address"
ErrKeyLength == "Invalid public key length"

STR_spark == <<"s", "p", "a", "r", "k">>
STR_sparkrt == <<"s", "p", "a", "r", "k", "r", "t">>
STR_bc == <<"b", "c">>
STR_bcrt == <<"b", "c", "r", "t">>
STR_tb == <<"t", "b">>

Networks == {"mainnet", "regtest"}

AddressError(msg) == [status |-> "error", message |-> msg, address |-> << >>]

\* the outcome of a bech32m.encode call as the outcome of the caller
Encoded(e) ==
  IF e.ok THEN [status |-> "ok", message |-> "", address |-> e.str]
  ELSE AddressError(e.message)

\* NetworkPrefix with the two prefixes exchanged
NetworkPrefix_Swapped(network) == IF network = "mainnet" THEN STR_sparkrt ELSE STR_spark

\* network === "mainnet" ? "spark" : "sparkrt"
NetworkPrefix(network) == IF network = "mainnet" THEN STR_spark ELSE STR_sparkrt

\* [10, 33, ...publicKey]
PublicKeyPayload(key) == <<10, 33>> \o key

\* PublicKeyRejected with a lower bound only
PublicKeyRejected_TooShort(key) == Len(key) < 33

\* publicKey.length !== 33
PublicKeyRejected(key) == Len(key) # 33

getSparkAddressFromPublicKey(publicKey, network) ==
  IF PublicKeyRejected(publicKey) THEN AddressError(ErrPublicKeyFormat)
  ELSE Encoded(bech32m_encode(NetworkPrefix(network), toWords(PublicKeyPayload(publicKey))))

\* TaprootPayload with the odd-y sign byte
TaprootPayload_OddSign(xOnlyKey) == <<10, 33, 3>> \o xOnlyKey

\* [10, 33, 2, ...addressBytes]
TaprootPayload(xOnlyKey) == <<10, 33, 2>> \o xOnlyKey

\* prefix === "bc" ? "spark" : "sparkrt"
TaprootSparkPrefix(hrp) == IF hrp = STR_bc THEN STR_spark ELSE STR_sparkrt

\* PrefixCheck with the two checks in the other order
PrefixCheck_UnknownFirst(hrp) ==
  IF hrp # STR_bc /\ hrp # STR_bcrt THEN ErrUnknownPrefix
  ELSE IF hrp = STR_tb THEN ErrNetwork
  ELSE ""

\* the checks on the decoded prefix, in the order of the code: the message of
\* the first one that fails, or the empty string
PrefixCheck(hrp) ==
  IF hrp = STR_tb THEN ErrNetwork
  ELSE IF hrp # STR_bc /\ hrp # STR_bcrt THEN ErrUnknownPrefix
  ELSE ""

\* the statements after bech32m.fromWords: decodedBytes is its outcome
SparkFromBytes(hrp, decodedBytes) ==
  IF ~decodedBytes.ok THEN AddressError(decodedBytes.message)
  ELSE IF Len(decodedBytes.out) # 32 THEN AddressError(ErrKeyLength)
  ELSE Encoded(bech32m_encode(TaprootSparkPrefix(hrp),
                              toWords(TaprootPayload(decodedBytes.out))))

\* SparkFromDecoded that does not propagate the failure of bech32m.decode
SparkFromDecoded_Unchecked(decoded) ==
  IF PrefixCheck(decoded.prefix) # "" THEN AddressError(PrefixCheck(decoded.prefix))
  ELSE IF Len(decoded.words) = 0 \/ decoded.words[1] # 1 THEN AddressError(ErrVersion)
  ELSE SparkFromBytes(decoded.prefix, fromWords(Tail(decoded.words)))

\* the statements after bech32m.decode: decoded is its outcome
SparkFromDecoded(decoded) ==
  IF ~decoded.ok THEN AddressError(decoded.message)
  ELSE IF PrefixCheck(decoded.prefix) # "" THEN AddressError(PrefixCheck(decoded.prefix))
  ELSE IF Len(decoded.words) = 0 \/ decoded.words[1] # 1 THEN AddressError(ErrVersion)
  ELSE SparkFromBytes(decoded.prefix, fromWords(Tail(decoded.words)))

\* getSparkAddressFromTaproot that checks the characters before the last "1"
\* before it decodes the address
getSparkAddressFromTaproot_PrefixFirst(taprootAddress) ==
  IF PrefixCheck(SubSeq(toLowerCase(taprootAddress), 1,
                        LastSeparator(toLowerCase(taprootAddress)) - 1)) # ""
  THEN AddressError(PrefixCheck(SubSeq(toLowerCase(taprootAddress), 1,
                                       LastSeparator(toLowerCase(taprootAddress)) - 1)))
  ELSE SparkFromDecoded(bech32m_decode(taprootAddress))

getSparkAddressFromTaproot(taprootAddress) == SparkFromDecoded(bech32m_decode(taprootAddress))

\* ------------------------------------------------------------------------
\* Inputs
\* ------------------------------------------------------------------------
\* new Uint8Array(len).fill(fill)
SeedOf(len, fill) == [i \in 1..len |-> fill]

\* the test seed, the all-zero seed, a seed of no bytes, and one more seed
Seeds == {SeedOf(32, 1), SeedOf(32, 0), SeedOf(0, 0), SeedOf(32, 40)}

AccountNumbers == 0..MaxAccount

InstanceIds == {1, 2}

\* what the primitive may leave null: nothing, or one component of one node
AbsentChoices ==
  {{}} \cup {{<<r, c>>} : r \in {"master", "identity", "signing", "deposit", "static"},
                             c \in {"privateKey", "publicKey"}}

\* a byte array of len bytes
PatternBytes(len, head, step) ==
  [i \in 1..len |-> IF i = 1 THEN head ELSE (head * 7 + i * step) % 256]

PublicKeyInputs ==
  {PatternBytes(len, head, step) : len \in {0, 1, 32, 33, 34, 65},
                                   head \in {0, 2, 3, 255},
                                   step \in 0..MaxStep}
  \cup {getPublicKey(BytesBE(k, 32)) : k \in 1..MaxKey}

STR_xyz == <<"x", "y", "z">>
STR_invalid == <<"i", "n", "v", "a", "l", "i", "d", "-", "a", "d", "d", "r", "e", "s", "s">>
VECTOR_bc ==
  <<"b", "c", "1", "p", "v", "l", "u", "h", "s", "p", "u", "f", "x", "m",
  "u", "u", "s", "9", "w", "h", "3", "d", "s", "h", "x", "h", "x", "f", "g",
  "3", "6", "5", "6", "c", "9", "m", "w", "f", "w", "8", "5", "s", "c", "a",
  "y", "d", "y", "p", "7", "s", "k", "9", "8", "0", "0", "s", "l", "4", "h",
  "5", "a", "e">>
VECTOR_bcrt ==
  <<"b", "c", "r", "t", "1", "p", "4", "7", "k", "h", "0", "f", "f", "2",
  "9", "d", "3", "r", "j", "w", "2", "n", "4", "3", "v", "x", "q", "g", "m",
  "r", "g", "v", "9", "a", "z", "5", "6", "2", "x", "3", "7", "x", "6", "d",
  "p", "4", "e", "h", "y", "q", "q", "7", "e", "z", "y", "h", "c", "q", "l",
  "z", "5", "y", "4", "2">>
VECTOR_tb ==
  <<"t", "b", "1", "p", "5", "c", "y", "x", "n", "u", "x", "m", "e", "u",
  "w", "u", "v", "k", "w", "f", "e", "m", "9", "6", "l", "q", "z", "s", "z",
  "d", "0", "2", "n", "6", "x", "d", "c", "j", "r", "s", "2", "0", "c", "a",
  "c", "6", "y", "q", "j", "d", "c", "w", "p", "s", "8", "y", "q">>
VECTOR_xyz ==
  <<"x", "y", "z", "1", "p", "5", "c", "y", "x", "n", "u", "x", "m", "e",
  "u", "w", "u", "v", "k", "w", "f", "e", "m", "9", "6", "l", "q", "z", "s",
  "z", "d", "0", "2", "n", "6", "x", "d", "c", "j", "r", "s", "2", "0", "c",
  "a", "c", "6", "y", "q", "j", "d", "c", "w", "p", "s", "8", "y", "q">>

\* the Spark addresses the tests expect for VECTOR_bc and VECTOR_bcrt
EXPECTED_spark ==
  <<"s", "p", "a", "r", "k", "1", "p", "g", "s", "s", "y", "e", "l", "e",
  "0", "q", "r", "c", "j", "d", "h", "e", "e", "q", "2", "a", "0", "z",
  "m", "p", "w", "d", "w", "v", "j", "3", "r", "4", "f", "4", "s", "t",
  "k", "u", "j", "u", "0", "f", "p", "3", "6", "g", "6", "g", "r", "a",
  "p", "v", "2", "w", "7", "l", "8", "a", "m", "2", "c", "p">>
EXPECTED_sparkrt ==
  <<"s", "p", "a", "r", "k", "r", "t", "1", "p", "g", "s", "s", "9", "t",
  "a", "d", "w", "7", "j", "j", "5", "2", "m", "z", "8", "y", "u", "4",
  "8", "t", "z", "c", "v", "q", "3", "k", "x", "s", "c", "t", "6", "9",
  "f", "5", "5", "d", "r", "u", "d", "5", "6", "r", "t", "n", "w", "g",
  "q", "p", "a", "j", "y", "f", "0", "s", "t", "j", "6", "2", "w", "6">>

\* segwit addresses: witness version word, then the program in 5-bit groups
SegwitAddresses ==
  {bech32m_encode(hrp, <<v>> \o toWords(PatternBytes(len, head, step))).str :
     hrp \in {STR_bc, STR_bcrt, STR_tb, STR_xyz, STR_spark}, v \in {0, 1, 2, 16},
     len \in {0, 20, 31, 32, 33, 40}, head \in {0, 121}, step \in 0..MaxStep}

TaprootAddresses ==
  {bech32m_encode(hrp, <<1>> \o toWords(PatternBytes(32, head, 1))).str :
     hrp \in {STR_bc, STR_bcrt, STR_tb}, head \in {0, 121}}

\* data parts that are no witness version followed by a 32-byte program
OddWords ==
  LET w == toWords(PatternBytes(32, 121, 1))
  IN {<< >>, <<1>>, <<1>> \o [w EXCEPT ![Len(w)] = @ + 1], <<1>> \o w \o <<0, 0>>,
      <<1>> \o w \o <<0>>, <<1>> \o SubSeq(w, 1, Len(w) - 1)}

\* addresses the decoder rejects, or whose data part is no Taproot program:
\* the last character replaced by the next one of the alphabet, the first
\* character in upper case, all upper case (accepted), cut short, the bech32
\* checksum constant, and odd data parts
MalformedAddresses ==
  {[a EXCEPT ![Len(a)] = ALPHABET[((AlphabetValue(@) + 1) % 32) + 1]] : a \in TaprootAddresses}
  \cup {[a EXCEPT ![1] = UpperChar(@)] : a \in TaprootAddresses}
  \cup {toUpperCase(a) : a \in TaprootAddresses}
  \cup {SubSeq(a, 1, 7) : a \in TaprootAddresses}
  \cup {encodeWith(1, hrp, <<1>> \o toWords(PatternBytes(32, 121, 1))).str :
          hrp \in {STR_bc, STR_bcrt, STR_tb}}
  \cup {bech32m_encode(hrp, w).str : hrp \in {STR_bc, STR_bcrt, STR_tb, STR_xyz},
                                    w \in OddWords}

AddressInputs ==
  SegwitAddresses \cup TaprootAddresses \cup MalformedAddresses
  \cup {STR_invalid, << >>, VECTOR_bc, VECTOR_bcrt, VECTOR_tb, VECTOR_xyz}

\* ------------------------------------------------------------------------
\* State
\*   absent     the components the HD primitive leaves null (fixed)
\*   instances  the generator objects: class and useAddressIndex
\*   first      the first deriveKeysFromSeed call and its outcome
\*   last       the latest deriveKeysFromSeed call and its outcome
\*   codec      the address codec call and its outcome
\* ------------------------------------------------------------------------
NoInstance == [scheme |-> "none", useAddressIndex |-> FALSE]

NoCall == [instance |-> 0, scheme |-> "none", useAddressIndex |-> FALSE,
           seed |-> << >>, accountNumber |-> 0, derivationPath |-> << >>,
           outcome |-> Throw("")]

\* the outcome of a call that has not run yet
Pending == [status |-> "pending", message |-> "", address |-> << >>]

NoCodec == [op |-> "none", publicKey |-> << >>, network |-> "none",
            taprootAddress |-> << >>, outcome |-> Pending]

Init ==
  /\ absent = {}
  /\ instances = [i \in InstanceIds |-> NoInstance]
  /\ first = NoCall
  /\ last = NoCall
  /\ codec = NoCodec

\* constructor(private readonly useAddressIndex: boolean); for the Taproot
\* class the argument defaults to false.  args is the argument list.
ConstructedFlag(scheme, args) == IF Len(args) = 0 THEN FALSE ELSE args[1]

Construct(i, scheme, args) ==
  /\ instances[i] = NoInstance
  /\ Len(args) = 0 => scheme = "Taproot"
  /\ instances' = [instances EXCEPT ![i] =
                     [scheme |-> scheme, useAddressIndex |-> ConstructedFlag(scheme, args)]]
  /\ UNCHANGED <<absent, first, last, codec>>

\* InstanceAfterCall of a method that overwrites the field
InstanceAfterCall_Flip(instance) ==
  [instance EXCEPT !.useAddressIndex = ~instance.useAddressIndex]

\* the generator object after a call: the field is readonly and no method
\* assigns it
InstanceAfterCall(instance) == instance

\* deriveKeysFromSeed and the path it resolves, tabulated over the inputs
CallTable ==
  [k \in Schemes \X BOOLEAN \X Seeds \X AccountNumbers \X AbsentChoices |->
     [derivationPath |-> DerivationPath(k[1], k[2], k[4]),
      outcome |-> deriveKeysFromSeed(k[1], k[2], k[3], k[4], k[5])]] @@ << >>

\* the record of one call: the object it was made on, its arguments, and the
\* path and outcome of result
Invocation(i, this, seed, accountNumber, result) ==
  [instance |-> i, scheme |-> this.scheme, useAddressIndex |-> this.useAddressIndex,
   seed |-> seed, accountNumber |-> accountNumber,
   derivationPath |-> result.derivationPath, outcome |-> result.outcome]

\* generator.deriveKeysFromSeed(seed, accountNumber)
Call(i, seed, accountNumber) ==
  /\ instances[i] # NoInstance
  /\ last' = Invocation(i, instances[i], seed, accountNumber,
                        CallTable[<<instances[i].scheme, instances[i].useAddressIndex,
                                    seed, accountNumber, absent>>])
  /\ first' = IF first = NoCall THEN last' ELSE first
  /\ instances' = [instances EXCEPT ![i] = InstanceAfterCall(instances[i])]
  /\ UNCHANGED <<absent, codec>>

\* getSparkAddressFromPublicKey(publicKey, network), the call in codec
Encode ==
  /\ codec.op = "encode"
  /\ codec.outcome = Pending
  /\ codec' = [codec EXCEPT !.outcome =
                 getSparkAddressFromPublicKey(codec.publicKey, codec.network)]
  /\ UNCHANGED <<absent, instances, first, last>>

\* getSparkAddressFromTaproot(taprootAddress), the call in codec
DecodeFromTaproot ==
  /\ codec.op = "decode"
  /\ codec.outcome = Pending
  /\ codec' = [codec EXCEPT !.outcome = getSparkAddressFromTaproot(codec.taprootAddress)]
  /\ UNCHANGED <<absent, instances, first, last>>

ConstructorArgs == {<< >>, <<TRUE>>, <<FALSE>>}

Next ==
  \/ \E i \in InstanceIds, scheme \in Schemes, args \in ConstructorArgs :
       Construct(i, scheme, args)
  \/ \E i \in InstanceIds, seed \in Seeds, n \in AccountNumbers : Call(i, seed, n)

Spec == Init /\ [][Next]_vars

\* one generator object, over every behaviour of the HD primitive
InitFault ==
  /\ absent \in AbsentChoices
  /\ instances = [i \in InstanceIds |-> NoInstance]
  /\ first = NoCall
  /\ last = NoCall
  /\ codec = NoCodec

NextFault ==
  \/ \E scheme \in Schemes, args \in ConstructorArgs : Construct(1, scheme, args)
  \/ \E seed \in Seeds, n \in AccountNumbers : Call(1, seed, n)

SpecFault == InitFault /\ [][NextFault]_vars

\* the address codec: one call per behaviour, its arguments drawn at the start
CodecCalls ==
  {[op |-> "encode", publicKey |-> publicKey, network |-> network,
    taprootAddress |-> << >>, outcome |-> Pending] :
     publicKey \in PublicKeyInputs, network \in Networks}
  \cup {[op |-> "decode", publicKey |-> << >>, network |-> "none",
         taprootAddress |-> taprootAddress, outcome |-> Pending] :
          taprootAddress \in AddressInputs}

InitCodec ==
  /\ absent = {}
  /\ instances = [i \in InstanceIds |-> NoInstance]
  /\ first = NoCall
  /\ last = NoCall
  /\ codec \in CodecCalls

NextCodec == Encode \/ DecodeFromTaproot

SpecCodec == InitCodec /\ [][NextCodec]_vars

\* ------------------------------------------------------------------------
\* Properties of the key generators
\* ------------------------------------------------------------------------
\* the error classes of the design, from the messages the code throws; what
\* the bech32m primitive throws is an address format error
ErrorKind(message) ==
  IF message \in {ErrMaster, ErrDerived} THEN "SeedDerivationError"
  ELSE IF message = ErrPublicKeyFormat THEN "PublicKeyFormatError"
  ELSE IF message = ErrNetwork THEN "NetworkError"
  ELSE IF message = ErrUnknownPrefix THEN "UnknownPrefixError"
  ELSE IF message \in {ErrVersion, ErrKeyLength, ErrExceeds, ErrInvalidPrefix,
                       ErrTooShort, ErrMixedCase, ErrNoSeparator, ErrMissingPrefix,
                       ErrDataTooShort, ErrUnknownChar, ErrChecksum,
                       ErrExcessPadding, ErrNonZeroPadding}
       THEN "AddressFormatError"
  ELSE "Error"

Made(call) == call.scheme # "none"

Succeeded(call) == Made(call) /\ call.outcome.status = "ok"

\* the master node of a call and the node at its resolved base path
MasterNode(call) == fromMasterSeed(call.seed, absent).node
BaseNode(call) == derive(MasterNode(call), call.derivationPath, absent).node

\* the tweaked private key of a Taproot call before the even-y normalisation
TweakedKey(call) == taprootTweakPrivKey(BaseNode(call).privateKey).key

\* C1: every bundle the Taproot generator returns has an identity public key
\* with the even-y prefix 0x02, whatever the parity before normalisation.
C1_TaprootEvenY ==
  (Succeeded(last) /\ last.scheme = "Taproot")
    => last.outcome.keys.identityKey.publicKey[1] = 2

\* a Taproot bundle whose tweaked key had odd y before normalisation
C1_Witness ==
  /\ Succeeded(last)
  /\ last.scheme = "Taproot"
  /\ getPublicKey(TweakedKey(last))[1] = 3

Lacks(node) == node.privateKey = Null \/ node.publicKey = Null

DerivedNodeLacks(call) ==
  \/ Lacks(BaseNode(call))
  \/ \E i \in 1..3 : Lacks(deriveChild(BaseNode(call), i, TRUE, absent))

\* C2: for every scheme deriveKeysFromSeed fails with SeedDerivationError and
\* returns no bundle whenever the master key or one of the four derived nodes
\* lacks its private or public component; for a derived node the message is
\* "Failed to derive all required keys from seed".
C2_MissingComponentFails ==
  (Made(last) /\ fromMasterSeed(last.seed, absent).ok)
    => /\ (Lacks(MasterNode(last)) \/ DerivedNodeLacks(last))
            => /\ last.outcome.status = "error"
               /\ ErrorKind(last.outcome.message) = "SeedDerivationError"
               /\ last.outcome.keys = NoKeys
       /\ (~Lacks(MasterNode(last)) /\ DerivedNodeLacks(last))
            => last.outcome.message = ErrDerived

\* C3: the signing, deposit and static deposit keys are the hardened children
\* 1', 2', 3' of the node at the resolved base path; for Taproot that node is
\* the untweaked internal key.
C3_ChildrenOfBasePath ==
  Succeeded(last) =>
    LET P == BaseNode(last)
        keys == last.outcome.keys
        deposit == deriveChild(P, 2, TRUE, absent)
    IN /\ P.depth = 5
       /\ keys.signingHDKey = DerivedHDKey(deriveChild(P, 1, TRUE, absent))
       /\ keys.depositKey = KeyPair(deposit.privateKey, deposit.publicKey)
       /\ keys.staticDepositHDKey = DerivedHDKey(deriveChild(P, 3, TRUE, absent))
       /\ last.scheme # "Taproot"
            => keys.identityKey = KeyPair(P.privateKey, P.publicKey)

\* a Taproot bundle whose identity key was tweaked and negated
C3_Witness ==
  /\ Succeeded(last)
  /\ last.scheme = "Taproot"
  /\ getPublicKey(TweakedKey(last))[1] = 3
  /\ last.outcome.keys.identityKey.privateKey # BaseNode(last).privateKey
  /\ last.accountNumber > 0

Purpose(scheme) ==
  CASE scheme = "NativeSegwit" -> 84
    [] scheme = "WrappedSegwit" -> 49
    [] scheme = "LegacyBitcoin" -> 44
    [] scheme = "Taproot" -> 86

Component(index, hardened) == [index |-> index, hardened |-> hardened]

\* the components of a path "m/..." as the derivation primitive reads them
PathComponents(path) ==
  LET parts == Split(SubSeq(path, 3, Len(path)), "/")
  IN [i \in 1..Len(parts) |->
        Component(ComponentIndex(parts[i]), ComponentHardened(parts[i]))]

WellFormedPath(path) ==
  /\ Len(path) > 2
  /\ path[1] = "m"
  /\ path[2] = "/"
  /\ \A c \in {Split(SubSeq(path, 3, Len(path)), "/")[i] :
                 i \in 1..Len(Split(SubSeq(path, 3, Len(path)), "/"))} :
       IsChildComponent(c)

\* C4: the resolved base path is m/p'/0'/0'/0/n with useAddressIndex and
\* m/p'/0'/n'/0/0 without, p the purpose code of the scheme.
C4_PathResolution ==
  Made(last) =>
    LET p == Purpose(last.scheme)
        n == last.accountNumber
    IN /\ WellFormedPath(last.derivationPath)
       /\ PathComponents(last.derivationPath) =
            IF last.useAddressIndex
            THEN <<Component(p, TRUE), Component(0, TRUE), Component(0, TRUE),
                   Component(0, FALSE), Component(n, FALSE)>>
            ELSE <<Component(p, TRUE), Component(0, TRUE), Component(n, TRUE),
                   Component(0, FALSE), Component(0, FALSE)>>

\* an account-form path of a template scheme for a non-zero account
C4_Witness ==
  /\ Made(last)
  /\ last.scheme = "LegacyBitcoin"
  /\ ~last.useAddressIndex
  /\ last.accountNumber = MaxAccount

SameInputs(a, b) ==
  /\ a.scheme = b.scheme
  /\ a.useAddressIndex = b.useAddressIndex
  /\ a.seed = b.seed
  /\ a.accountNumber = b.accountNumber

AccountsZeroAndOne ==
  /\ Succeeded(first)
  /\ Succeeded(last)
  /\ first.scheme = last.scheme
  /\ first.useAddressIndex = last.useAddressIndex
  /\ first.seed = last.seed
  /\ first.accountNumber = 0
  /\ last.accountNumber = 1

IdentityKeysDiffer ==
  /\ first.outcome.keys.identityKey.privateKey # last.outcome.keys.identityKey.privateKey
  /\ first.outcome.keys.identityKey.publicKey # last.outcome.keys.identityKey.publicKey

NeitherEqualNorNegated(a, b) == a # b /\ a # privateNegate(b)

Encoded33 == codec.op = "encode" /\ codec.outcome # Pending

Decoded == codec.op = "decode" /\ codec.outcome # Pending

\* C7: getSparkAddressFromPublicKey throws "Invalid public key format" and
\* gives no address for every key that is not 33 bytes long, on either
\* network, and does not throw it for a key of 33 bytes.
C7_KeyLengthChecked ==
  Encoded33 =>
    /\ Len(codec.publicKey) # 33
         => /\ codec.outcome.status = "error"
            /\ codec.outcome.message = ErrPublicKeyFormat
            /\ ErrorKind(codec.outcome.message) = "PublicKeyFormatError"
            /\ codec.outcome.address = << >>
    /\ Len(codec.publicKey) = 33 => codec.outcome.message # ErrPublicKeyFormat

\* a key of 34 bytes was rejected
C7_Witness ==
  /\ Encoded33
  /\ Len(codec.publicKey) = 34
  /\ codec.network = "regtest"
  /\ codec.outcome.status = "error"

IsPrefixOf(p, str) == Len(str) >= Len(p) /\ SubSeq(str, 1, Len(p)) = p

\* C8: for a key of 33 bytes the address is the bech32m encoding of
\* [0x0a, 0x21] ++ key under "spark" (mainnet) or "sparkrt" (regtest): it
\* starts with "spark1" or "sparkrt1", is longer than 10 characters and
\* decodes to that prefix and payload.
C8_EncodesPayload ==
  (Encoded33 /\ Len(codec.publicKey) = 33) =>
    LET address == codec.outcome.address
        hrp == IF codec.network = "mainnet" THEN STR_spark ELSE STR_sparkrt
        back == bech32m_decode(address)
    IN /\ codec.outcome.status = "ok"
       /\ IsPrefixOf(hrp \o <<"1">>, address)
       /\ Len(address) > 10
       /\ back.ok
       /\ back.prefix = hrp
       /\ fromWords(back.words).ok
       /\ fromWords(back.words).out = <<10, 33>> \o codec.publicKey

\* a derived public key encoded for regtest
C8_Witness ==
  /\ Encoded33
  /\ codec.network = "regtest"
  /\ codec.publicKey = getPublicKey(BytesBE(MaxKey, 32))
  /\ codec.outcome.status = "ok"

\* C9: getSparkAddressFromTaproot reports the first failing check, in the
\* order: bech32m decode (address format), prefix "tb" (network), prefix not
\* "bc" or "bcrt" (unknown prefix), first word not 1 (address format, version),
\* rest not 32 bytes (address format, key length); no address on failure.
C9_FirstFailingCheck ==
  Decoded =>
    LET input == bech32m_decode(codec.taprootAddress)
        program == fromWords(Tail(input.words))
        out == codec.outcome
    IN /\ out.status = "error" => out.address = << >>
       /\ IF ~input.ok
          THEN out.status = "error" /\ ErrorKind(out.message) = "AddressFormatError"
                                    /\ out.message = input.message
          ELSE IF input.prefix = STR_tb
          THEN out.status = "error" /\ ErrorKind(out.message) = "NetworkError"
          ELSE IF input.prefix \notin {STR_bc, STR_bcrt}
          THEN out.status = "error" /\ ErrorKind(out.message) = "UnknownPrefixError"
          ELSE IF Len(input.words) = 0 \/ input.words[1] # 1
          THEN out.status = "error" /\ out.message = ErrVersion
                                    /\ ErrorKind(out.message) = "AddressFormatError"
          ELSE IF ~program.ok
          THEN out.status = "error" /\ ErrorKind(out.message) = "AddressFormatError"
          ELSE IF Len(program.out) # 32
          THEN out.status = "error" /\ out.message = ErrKeyLength
                                    /\ ErrorKind(out.message) = "AddressFormatError"
          ELSE out.status = "ok"

\* a well-formed "tb" address of another version and program length was
\* rejected for its network
C9_Witness ==
  /\ Decoded
  /\ bech32m_decode(codec.taprootAddress).ok
  /\ bech32m_decode(codec.taprootAddress).prefix = STR_tb
  /\ Len(bech32m_decode(codec.taprootAddress).words) = 33
  /\ bech32m_decode(codec.taprootAddress).words[1] = 0
  /\ codec.outcome.message = ErrNetwork

\* the input is a "bc" or "bcrt" address of witness version 1 with a 32-byte
\* program
TaprootInput ==
  LET input == bech32m_decode(codec.taprootAddress)
  IN /\ input.ok
     /\ input.prefix \in {STR_bc, STR_bcrt}
     /\ Len(input.words) > 0
     /\ input.words[1] = 1
     /\ fromWords(Tail(input.words)).ok
     /\ Len(fromWords(Tail(input.words)).out) = 32

\* C10: for such an input with program X the result is the bech32m encoding
\* of [0x0a, 0x21, 0x02] ++ X under "spark" for bc and "sparkrt" for bcrt,
\* which is getSparkAddressFromPublicKey([0x02] ++ X, mainnet or regtest).
C10_TaprootToSpark ==
  (Decoded /\ TaprootInput) =>
    LET input == bech32m_decode(codec.taprootAddress)
        X == fromWords(Tail(input.words)).out
        hrp == IF input.prefix = STR_bc THEN STR_spark ELSE STR_sparkrt
        network == IF input.prefix = STR_bc THEN "mainnet" ELSE "regtest"
        back == bech32m_decode(codec.outcome.address)
    IN /\ codec.outcome.status = "ok"
       /\ codec.outcome = getSparkAddressFromPublicKey(<<2>> \o X, network)
       /\ back.ok
       /\ back.prefix = hrp
       /\ fromWords(back.words).out = <<10, 33, 2>> \o X

\* a regtest Taproot address was converted
C10_Witness ==
  /\ Decoded
  /\ TaprootInput
  /\ bech32m_decode(codec.taprootAddress).prefix = STR_bcrt
  /\ codec.outcome.status = "ok"

\* ------------------------------------------------------------------------
\* Fixed vectors of the address codec
\* ------------------------------------------------------------------------
\* C11: getSparkAddressFromTaproot returns exactly the expected Spark address
\* for the mainnet vector and for the regtest vector.
C11_FixedVectors ==
  /\ (Decoded /\ codec.taprootAddress = VECTOR_bc)
        => codec.outcome = [status |-> "ok", message |-> "", address |-> EXPECTED_spark]
  /\ (Decoded /\ codec.taprootAddress = VECTOR_bcrt)
        => codec.outcome = [status |-> "ok", message |-> "", address |-> EXPECTED_sparkrt]

\* the regtest vector was converted
C11_Witness ==
  /\ Decoded
  /\ codec.taprootAddress = VECTOR_bcrt
  /\ codec.outcome.address = EXPECTED_sparkrt

\* C12 as stated: the "tb" string of the tests passes bech32m.decode and is
\* rejected by the prefix === "tb" check.
C12_Original ==
  (Decoded /\ codec.taprootAddress = VECTOR_tb)
    => /\ bech32m_decode(VECTOR_tb).ok
       /\ codec.outcome.status = "error"
       /\ ErrorKind(codec.outcome.message) = "NetworkError"

\* C12: the "tb" string of the tests does not pass bech32m.decode: its
\* checksum is invalid, the call fails with the address format error the
\* decoder throws, and the prefix === "tb" check is not what rejects it.
C12_Amended ==
  (Decoded /\ codec.taprootAddress = VECTOR_tb)
    => /\ ~bech32m_decode(VECTOR_tb).ok
       /\ codec.outcome = AddressError(ErrChecksum)
       /\ ErrorKind(codec.outcome.message) = "AddressFormatError"
       /\ codec.outcome.message # ErrNetwork

\* the "tb" string of the tests was rejected
C12_Witness ==
  /\ Decoded
  /\ codec.taprootAddress = VECTOR_tb
  /\ codec.outcome.status = "error"

\* C13 as stated: the "xyz" string of the tests passes bech32m.decode and is
\* rejected by the check that the prefix is "bc" or "bcrt".
C13_Original ==
  (Decoded /\ codec.taprootAddress = VECTOR_xyz)
    => /\ bech32m_decode(VECTOR_xyz).ok
       /\ codec.outcome.status = "error"
       /\ ErrorKind(codec.outcome.message) = "UnknownPrefixError"

\* C13: the "xyz" string of the tests does not pass bech32m.decode: its
\* checksum is invalid under the prefix "xyz", the call fails with the
\* address format error the decoder throws, and no prefix check rejects it.
C13_Amended ==
  (Decoded /\ codec.taprootAddress = VECTOR_xyz)
    => /\ bech32m_decode(VECTOR_xyz).message = ErrChecksum
       /\ codec.outcome.status = "error"
       /\ codec.outcome.address = << >>
       /\ codec.outcome.message = ErrChecksum
       /\ ErrorKind(codec.outcome.message) \notin {"UnknownPrefixError", "NetworkError"}

\* the "xyz" string of the tests was rejected, its prefix being neither "bc"
\* nor "bcrt"
C13_Witness ==
  /\ Decoded
  /\ codec.taprootAddress = VECTOR_xyz
  /\ codec.outcome.status = "error"
  /\ PrefixCheck(STR_xyz) = ErrUnknownPrefix

\* ------------------------------------------------------------------------
\* Normalisation of the Taproot identity key
\* ------------------------------------------------------------------------
\* C14: with t the key taprootTweakPrivKey returns for the internal key, the
\* identity private key of a Taproot bundle is t when the public key of t has
\* prefix 0x02 and the negation of t (and then not t itself) when it has
\* prefix 0x03, and the identity public key is the public key of the identity
\* private key.
C14_TweakNormalised ==
  (Succeeded(last) /\ last.scheme = "Taproot") =>
    LET t == TweakedKey(last)
        identityKey == last.outcome.keys.identityKey
    IN /\ getPublicKey(t)[1] \in {2, 3}
       /\ getPublicKey(t)[1] = 2 => identityKey.privateKey = t
       /\ getPublicKey(t)[1] = 3 => /\ identityKey.privateKey = privateNegate(t)
                                    /\ identityKey.privateKey # t
                                    /\ privateNegate(identityKey.privateKey) = t
       /\ identityKey.publicKey = getPublicKey(identityKey.privateKey)

\* a Taproot bundle whose identity private key is the negation of the tweaked
\* key
C14_Witness ==
  /\ Succeeded(last)
  /\ last.scheme = "Taproot"
  /\ last.outcome.keys.identityKey.privateKey = privateNegate(TweakedKey(last))
  /\ last.outcome.keys.identityKey.privateKey # TweakedKey(last)

\* ------------------------------------------------------------------------
\* The two path forms at account 0
\* ------------------------------------------------------------------------
\* first and last are calls with the same scheme, seed and account number,
\* first on a generator built with useAddressIndex = true and last on one
\* built with useAddressIndex = false
BothForms ==
  /\ Made(first)
  /\ Made(last)
  /\ first.scheme = last.scheme
  /\ first.seed = last.seed
  /\ first.accountNumber = last.accountNumber
  /\ first.useAddressIndex
  /\ ~last.useAddressIndex

\* C15: for account 0 the two forms resolve to the same path and the two
\* generators return the same outcome; for every account number >= 1 the two
\* forms resolve to different paths.
C15_FormsAtAccountZero ==
  BothForms =>
    /\ last.accountNumber = 0 => /\ first.derivationPath = last.derivationPath
                                 /\ PathComponents(last.derivationPath) =
                                      <<Component(Purpose(last.scheme), TRUE),
                                        Component(0, TRUE), Component(0, TRUE),
                                        Component(0, FALSE), Component(0, FALSE)>>
                                 /\ first.outcome = last.outcome
    /\ last.accountNumber >= 1 => first.derivationPath # last.derivationPath

\* two generators of the two forms returned the same bundle for account 0
C15_Witness ==
  /\ BothForms
  /\ first.instance # last.instance
  /\ last.accountNumber = 0
  /\ Succeeded(first)
  /\ Succeeded(last)
  /\ first.outcome = last.outcome

====
